---- MODULE Spec2Model ----
(***************************************************************************)
(* State-machine model of the PinchZoom component (react-quick-pinch-zoom). *)
(*                                                                         *)
(* Numbers.  JavaScript numbers are modelled as exact rationals <<n, d>>   *)
(* in lowest terms with d > 0, extended with the three non-finite IEEE     *)
(* values: <<1, 0>> is +Infinity, <<-1, 0>> is -Infinity and <<0, 0>> is   *)
(* NaN.  Rounding and the sign of zero are not modelled.                   *)
(*                                                                         *)
(* Time.  The code reads the clock only to take differences               *)
(* (new Date().getTime() - startTime, time - this._lastTouchStart) and to  *)
(* arm a 100 ms timer, so the model stores the elapsed milliseconds        *)
(* instead of the time stamps and lets them saturate at the value they     *)
(* are compared with.                                                      *)
(*                                                                         *)
(* Control.  Every method of the class is an operator from an instance     *)
(* record to an instance record; a handler is their composition, and one   *)
(* action of the model is one whole handler (or one whole display frame:   *)
(* all requestAnimationFrame callbacks queued for it, in order).           *)
(***************************************************************************)
EXTENDS Integers, Sequences, FiniteSets, TLC

----------------------------------------------------------------------------
(* Rational arithmetic with the IEEE non-finite values *)

RECURSIVE Gcd(_, _)
Gcd(a, b) ==
    IF b = 0 THEN a ELSE Gcd(b, a % b)

IAbs(n) ==
    IF n < 0 THEN -n ELSE n

Sign(n) ==
    IF n < 0 THEN -1 ELSE IF n > 0 THEN 1 ELSE 0

Norm(n, d) ==
    IF d = 0 THEN <<Sign(n), 0>>
    ELSE LET g == Gcd(IAbs(n), IAbs(d))
         IN  IF d < 0 THEN <<(-n) \div g, (-d) \div g>>
                      ELSE <<n \div g, d \div g>>

R(n) ==
    <<n, 1>>

NaN ==
    <<0, 0>>

IsNaN(a) ==
    a = NaN

IsFinite(a) ==
    a[2] # 0

IsZero(a) ==
    a[1] = 0 /\ a[2] # 0

RNeg(a) ==
    <<-a[1], a[2]>>

RAdd(a, b) ==
    IF IsNaN(a) \/ IsNaN(b) THEN NaN
    ELSE IF ~IsFinite(a) THEN (IF ~IsFinite(b) /\ a # b THEN NaN ELSE a)
    ELSE IF ~IsFinite(b) THEN b
    ELSE Norm(a[1] * b[2] + b[1] * a[2], a[2] * b[2])

RSub(a, b) ==
    RAdd(a, RNeg(b))

RMul(a, b) ==
    IF IsNaN(a) \/ IsNaN(b) THEN NaN
    ELSE IF ~IsFinite(a) \/ ~IsFinite(b)
         THEN (IF a[1] = 0 \/ b[1] = 0 THEN NaN ELSE <<Sign(a[1]) * Sign(b[1]), 0>>)
    ELSE Norm(a[1] * b[1], a[2] * b[2])

RDiv(a, b) ==
    IF IsNaN(a) \/ IsNaN(b) THEN NaN
    ELSE IF ~IsFinite(b) THEN (IF ~IsFinite(a) THEN NaN ELSE R(0))
    ELSE IF ~IsFinite(a) THEN (IF b[1] < 0 THEN RNeg(a) ELSE a)
    ELSE IF b[1] = 0 THEN <<Sign(a[1]), 0>>
    ELSE RMul(a, Norm(b[2], b[1]))

(* a < b; every comparison with NaN is false *)
RLt(a, b) ==
    IF IsNaN(a) \/ IsNaN(b) THEN FALSE
    ELSE IF ~IsFinite(a) \/ ~IsFinite(b)
         THEN (IF ~IsFinite(a) /\ ~IsFinite(b) THEN a[1] < b[1]
               ELSE IF ~IsFinite(a) THEN a[1] < 0
               ELSE b[1] > 0)
    ELSE a[1] * b[2] < b[1] * a[2]

RGt(a, b) ==
    RLt(b, a)

RLe(a, b) ==
    ~IsNaN(a) /\ ~IsNaN(b) /\ ~RLt(b, a)

(* the === of two numbers: NaN equals nothing, itself included *)
REq(a, b) ==
    ~IsNaN(a) /\ ~IsNaN(b) /\ a = b

(* the truthiness of a number: 0 and NaN are falsy *)
Truthy(a) ==
    ~IsNaN(a) /\ ~IsZero(a)

----------------------------------------------------------------------------
(* Values *)

Pt(x, y) ==
    [x |-> x, y |-> y]

(* Point | null: the empty sequence is null, <<p>> is the point p *)
None ==
    <<>>

Some(p) ==
    <<p>>

----------------------------------------------------------------------------
(* Module-level functions of the source *)

VARIABLES props, env, pz, host, obs

vars ==
    <<props, env, pz, host, obs>>

abs(a) ==
    IF IsNaN(a) THEN NaN ELSE <<IAbs(a[1]), a[2]>>

(* Math.max and Math.min answer NaN when an argument is NaN *)
max(a, b) ==
    IF IsNaN(a) \/ IsNaN(b) THEN NaN ELSE IF RLt(a, b) THEN b ELSE a

min(a, b) ==
    IF IsNaN(a) \/ IsNaN(b) THEN NaN ELSE IF RLt(b, a) THEN b ELSE a

(* the exact square root; the touch points offered by the model only have
   distances whose squares are perfect squares, and CHOOSE fails otherwise *)
ISqrt(n) ==
    CHOOSE r \in 0..n : r * r = n

sqrt(a) ==
    IF IsNaN(a) \/ a[1] < 0 THEN NaN
    ELSE IF ~IsFinite(a) THEN a
    ELSE <<ISqrt(a[1]), ISqrt(a[2])>>

isDragInteraction(i) ==
    i = "drag"

isZoomInteraction(i) ==
    i = "zoom"

getDistance(a, b) ==
    sqrt(RAdd(RMul(RSub(a.x, b.x), RSub(a.x, b.x)), RMul(RSub(a.y, b.y), RSub(a.y, b.y))))

calculateScale(startTouches, endTouches) ==
    RDiv(getDistance(endTouches[1], endTouches[2]), getDistance(startTouches[1], startTouches[2]))

isCloseTo(value, expected) ==
    RGt(value, RSub(expected, Norm(1, 100))) /\ RLt(value, RAdd(expected, Norm(1, 100)))

(* -cos(p * PI) / 2 + 0.5 at the progress values whose cosine is rational;
   the frame steps of the model only produce these *)
swing(p) ==
    CASE p = Norm(0, 1) -> Norm(0, 1)
      [] p = Norm(1, 3) -> Norm(1, 4)
      [] p = Norm(1, 2) -> Norm(1, 2)
      [] p = Norm(2, 3) -> Norm(3, 4)
      [] p = Norm(1, 1) -> Norm(1, 1)

RECURSIVE SumX(_), SumY(_)
SumX(vectors) ==
    IF vectors = <<>> THEN R(0) ELSE RAdd(Head(vectors).x, SumX(Tail(vectors)))

SumY(vectors) ==
    IF vectors = <<>> THEN R(0) ELSE RAdd(Head(vectors).y, SumY(Tail(vectors)))

getVectorAvg(vectors) ==
    Pt(RDiv(SumX(vectors), R(Len(vectors))), RDiv(SumY(vectors), R(Len(vectors))))

clamp(lo, hi, value) ==
    IF RLt(value, lo) THEN lo ELSE IF RGt(value, hi) THEN hi ELSE value

shouldInterceptWheel(event) ==
    ~(event.ctrlKey \/ event.metaKey)

calculateVelocity(startPoint, endPoint) ==
    Pt(RSub(endPoint.x, startPoint.x), RSub(endPoint.y, startPoint.y))

comparePoints(p1, p2) ==
    REq(p1.x, p2.x) /\ REq(p1.y, p2.y)

(* event.touches as page coordinates *)
getPageCoordinatesByTouches(touches) ==
    touches

----------------------------------------------------------------------------
(* The instance.  Every method takes the record s of the instance fields    *)
(* (pz), of the host surface (host: geometry, the requestAnimationFrame     *)
(* queue) and of the observer (obs: what the callbacks were handed), and    *)
(* answers the record after the call.                                       *)

(* a callback of props is invoked: noted for the handler in progress *)
(* observer (open, unpaired): the start notifications not yet followed by
   their end, and the notifications of this handler that came out of turn *)
Notify(s, name) ==
    [s EXCEPT !.calls = Append(@, name),
              !.open = IF name \in {"onDragStart", "onZoomStart"} THEN @ \cup {name}
                       ELSE IF name = "onDragEnd" THEN @ \ {"onDragStart"}
                       ELSE IF name = "onZoomEnd" THEN @ \ {"onZoomStart"}
                       ELSE @,
              !.unpaired = IF \/ name \in {"onDragStart", "onZoomStart"} /\ name \in s.open
                              \/ name = "onDragEnd" /\ "onDragStart" \notin s.open
                              \/ name = "onZoomEnd" /\ "onZoomStart" \notin s.open
                           THEN @ \cup {name}
                           ELSE @]

(* a requestAnimationFrame entry: the _update callback, or the renderFrame
   of one _animate session with the variables its frameFn closes over *)
UpdateEntry ==
    [kind |-> "update", fn |-> "update", z0 |-> R(0), z1 |-> R(0),
     p0 |-> Pt(R(0), R(0)), p1 |-> Pt(R(0), R(0)), duration |-> 0,
     callback |-> "none", frameTime |-> 0, ticks |-> 0, current |-> TRUE, api |-> FALSE,
     quiet |-> TRUE]

Session(fn, z0, z1, p0, p1) ==
    [kind |-> "anim", fn |-> fn, z0 |-> z0, z1 |-> z1, p0 |-> p0, p1 |-> p1,
     duration |-> 0, callback |-> "none", frameTime |-> 0, ticks |-> 0,
     current |-> TRUE, api |-> FALSE, quiet |-> TRUE]

(* observer: the sessions requested before now are no longer the current one *)
Outdate(queue) ==
    [i \in 1..Len(queue) |-> [queue[i] EXCEPT !.current = FALSE]]

Supersede(s) ==
    [s EXCEPT !.rafQueue = Outdate(@), !.batch = Outdate(@)]

_getContainerRect(s) ==
    s.rect

getElementSize(element) ==
    IF Truthy(element.offsetWidth) /\ Truthy(element.offsetHeight)
    THEN [width |-> element.offsetWidth, height |-> element.offsetHeight]
    ELSE IF Truthy(element.styleHeight) /\ Truthy(element.styleWidth)
    THEN [width |-> element.styleWidth, height |-> element.styleHeight]
    ELSE [width |-> R(0), height |-> R(0)]

_getChildSize(s) ==
    getElementSize(s.child)

_getInitialZoomFactor(s) ==
    s._initialZoomFactor

_stopAnimation(s) ==
    [s EXCEPT !._inAnimation = FALSE]

_resetInertia(s) ==
    [s EXCEPT !._velocity = None, !._prevDragMovePoint = None]

_addOffset(s, offset) ==
    [s EXCEPT !._offset = Pt(RAdd(s._offset.x, offset.x), RAdd(s._offset.y, offset.y))]

(* clamp(minOffset, maxOffset, value) on one axis, where maxOffset is
   max(maxV, 0) and minOffset is min(maxV, 0) - padding *)
SanitizedAxis(maxV, padding, value) ==
    clamp(RSub(min(maxV, R(0)), padding), max(maxV, R(0)), value)

(* maxX and maxY: the element's length at the current zoom, less the
   container's, plus the padding *)
MaxOffset(s, childLength, rectLength, padding) ==
    RAdd(RSub(RMul(RMul(childLength, _getInitialZoomFactor(s)), s._zoomFactor), rectLength), padding)

_sanitizeOffset(s, offset) ==
    Pt(SanitizedAxis(MaxOffset(s, _getChildSize(s).width, _getContainerRect(s).width,
                               props.horizontalPadding),
                     props.horizontalPadding, offset.x),
       SanitizedAxis(MaxOffset(s, _getChildSize(s).height, _getContainerRect(s).height,
                               props.verticalPadding),
                     props.verticalPadding, offset.y))

_isInsaneOffset(s) ==
    \/ ~REq(_sanitizeOffset(s, s._offset).x, s._offset.x)
    \/ ~REq(_sanitizeOffset(s, s._offset).y, s._offset.y)

(* this._zoomFactor = zoomFactor; return zoomFactor / originalZoomFactor:
   the instance after the call (s) and the returned multiplier (ret) *)
ZoomFactorSet(s, zoomFactor) ==
    [s |-> [s EXCEPT !._zoomFactor = zoomFactor], ret |-> RDiv(zoomFactor, s._zoomFactor)]

(* _scaleZoomFactor without its clamp *)
ScaleZoomFactorUnclamped(s, scale) ==
    ZoomFactorSet(s, RMul(s._zoomFactor, scale))

_scaleZoomFactor(s, scale) ==
    ZoomFactorSet(s, clamp(props.minZoom, props.maxZoom, RMul(s._zoomFactor, scale)))

(* observer: what _scale was asked and what it did, and whether the
   zoomFactor it was asked for was cut *)
ScaleProbe(s, s2, scale, center) ==
    [s2 EXCEPT !.scaled = Append(@, [scale |-> scale, center |-> center,
                                     offset0 |-> s._offset, zoomFactor0 |-> s._zoomFactor,
                                     offset1 |-> s2._offset, zoomFactor1 |-> s2._zoomFactor]),
               !.clamped = @ \/ s2._zoomFactor # RMul(s._zoomFactor, scale)]

(* this._addOffset({ x: (scale - 1) * (center.x + this._offset.x), ... });
   this.props.onZoomUpdate() *)
ScaleOffset(s1, scale, center) ==
    Notify(_addOffset(s1, Pt(RMul(RSub(scale, R(1)), RAdd(center.x, s1._offset.x)),
                             RMul(RSub(scale, R(1)), RAdd(center.y, s1._offset.y)))),
           "onZoomUpdate")

(* _scale moving the offset by the multiplier it was asked for, not by the
   one _scaleZoomFactor returned *)
ScaleByRequested(s, scale, center) ==
    ScaleProbe(s, ScaleOffset(_scaleZoomFactor(s, scale).s, scale, center), scale, center)

_scale(s, scale, center) ==
    ScaleProbe(s, ScaleOffset(_scaleZoomFactor(s, scale).s, _scaleZoomFactor(s, scale).ret, center),
               scale, center)

_scaleTo(s, zoomFactor, center) ==
    _scale(s, RDiv(zoomFactor, s._zoomFactor), center)

(* _canDrag without the zoomFactor test *)
CanDragAlways(s) ==
    TRUE

_canDrag(s) ==
    props.draggableUnZoomed \/ ~isCloseTo(s._zoomFactor, R(1))

(* _drag without the axis lock *)
DragBothAxes(s, center, lastCenter) ==
    IF lastCenter = None THEN s
    ELSE Notify(_addOffset(s, Pt(RNeg(RSub(center.x, lastCenter[1].x)),
                                 RNeg(RSub(center.y, lastCenter[1].y)))),
                "onDragUpdate")

DragBy(s, x, y) ==
    Notify(IF ~props.lockDragAxis THEN _addOffset(s, Pt(x, y))
           ELSE IF RGt(abs(x), abs(y)) THEN _addOffset(s, Pt(x, R(0)))
           ELSE _addOffset(s, Pt(R(0), y)),
           "onDragUpdate")

_drag(s, center, lastCenter) ==
    IF lastCenter = None THEN s
    ELSE DragBy(s, RNeg(RSub(center.x, lastCenter[1].x)), RNeg(RSub(center.y, lastCenter[1].y)))

(* the centre without the correction for the distance from the initial offset *)
ZoomCenterOfView(value, initial, zoomFactor) ==
    RMul(R(-1), value)

(* -1 * value - (value - initial) / (1 / this._zoomFactor - 1) *)
ZoomCenterAxis(value, initial, zoomFactor) ==
    RSub(RMul(R(-1), value), RDiv(RSub(value, initial), RSub(RDiv(R(1), zoomFactor), R(1))))

_getCurrentZoomCenter(s) ==
    Pt(ZoomCenterAxis(s._offset.x, s._initialOffset.x, s._zoomFactor),
       ZoomCenterAxis(s._offset.y, s._initialOffset.y, s._zoomFactor))

_getOffsetTouches(s, event) ==
    [i \in 1..Len(event.touches) |->
        Pt(RSub(getPageCoordinatesByTouches(event.touches)[i].x, RAdd(_getContainerRect(s).left, s.scrollLeft)),
           RSub(getPageCoordinatesByTouches(event.touches)[i].y, RAdd(_getContainerRect(s).top, s.scrollTop)))]

_getOffsetByFirstTouch(s, event) ==
    _getOffsetTouches(s, event)[1]

(* the transform handed to props.onUpdate *)
Transform(s, scale) ==
    [scale |-> scale, x |-> RDiv(RNeg(s._offset.x), scale), y |-> RDiv(RNeg(s._offset.y), scale)]

UpdateAction(s) ==
    Transform(s, RMul(_getInitialZoomFactor(s), s._zoomFactor))

updateFrame(s) ==
    Notify([s EXCEPT !.emitted = <<UpdateAction(s)>>, !.updates = Append(@, UpdateAction(s))], "onUpdate")

_update(s, isAnimation) ==
    IF s._updatePlaned THEN s
    ELSE IF isAnimation THEN updateFrame(s)
    ELSE [s EXCEPT !._updatePlaned = TRUE, !.rafQueue = Append(@, UpdateEntry)]

(* _animate(frameFn, options): frame is the session of frameFn; options
   gives callback and duration, timeFn is always swing *)
_animate(s, frame, options) ==
    [Supersede(s) EXCEPT
        !._inAnimation = TRUE,
        !.rafQueue = Append(@, [frame EXCEPT !.duration = options.duration,
                                             !.callback = options.callback])]

DefaultAnimateOptions ==
    [duration |-> props.animationDuration, callback |-> "none"]

_sanitizeOffsetAnimation(s) ==
    _animate(s, Session("_sanitizeOffsetAnimation", R(0), R(0), s._offset, _sanitizeOffset(s, s._offset)),
             DefaultAnimateOptions)

(* the session of an updateProgress that scales around one center *)
ZoomSession(fn, startZoomFactor, zoomFactor, center) ==
    Session(fn, startZoomFactor, zoomFactor, center, center)

_zoomOutAnimation(s) ==
    IF REq(s._zoomFactor, R(1)) THEN s
    ELSE _animate(s, ZoomSession("_zoomOutAnimation", s._zoomFactor, R(1), _getCurrentZoomCenter(s)),
                  DefaultAnimateOptions)

_sanitize(s) ==
    LET s1 == [s EXCEPT !.settles = @ + 1, !.settled = TRUE, !.inertiaEnded = FALSE]
    IN  IF RLt(s1._zoomFactor, props.zoomOutFactor) THEN _zoomOutAnimation(s1)
        ELSE IF _isInsaneOffset(s1) THEN _sanitizeOffsetAnimation(s1)
        ELSE s1

_end(s) ==
    _update(_sanitize([s EXCEPT !._hasInteraction = FALSE]), FALSE)

----------------------------------------------------------------------------
(* Animation sessions *)

(* observer: what became of the session e in this frame; inertiaEnded says
   that the inertia session requested last has come to its end (it ran out,
   or it finds that it has stopped itself) and no settle has run since *)
Fate(s, e, what) ==
    [s EXCEPT !.fates = Append(@, [fn |-> e.fn, current |-> e.current, api |-> e.api, what |-> what,
                                   quiet |-> e.quiet, p0 |-> e.p0,
                                   restored |-> REq(s._zoomFactor, R(1)) /\ s._offset = s._initialOffset]),
              !.inertiaEnded = @ \/ (e.fn = "_realizeInertia" /\ e.current /\ what \in {"finished", "dropped"})]

(* observer: the session e is about to call _stopAnimation; is the current
   session, requested after e, still waiting for a frame? *)
Stopping(s, e) ==
    IF /\ s._inAnimation
       /\ ~e.current
       /\ \E f \in {s.batch[i] : i \in 1..Len(s.batch)} \cup {s.rafQueue[i] : i \in 1..Len(s.rafQueue)} :
             f.kind = "anim" /\ f.current
    THEN Fate(s, e, "stopsNewer")
    ELSE s

Lerp(a, b, progress) ==
    RAdd(a, RMul(progress, RSub(b, a)))

(* renderFrame of _realizeInertia once x and y are multiplied: e1 is the
   session with the new x and y, s2 the instance with the new offset *)
InertiaMoved(s0, s2, e1) ==
    IF ~Truthy(e1.p0.x) /\ ~Truthy(e1.p0.y)
    THEN [s |-> _stopAnimation(Stopping(s0, e1)), e |-> e1]
    ELSE IF comparePoints(s0._offset, s2._offset)
    THEN [s |-> _stopAnimation(Stopping(s2, e1)), e |-> e1]
    ELSE [s |-> _update([s2 EXCEPT !.decay[Len(s2.decay)] =
                                       [@ EXCEPT !.moved = TRUE,
                                                 !.contained = (_sanitizeOffset(s2, s2._offset) = s2._offset)]],
                        TRUE),
          e |-> e1]

InertiaVelocity(s, e, x, y) ==
    LET s0 == [s EXCEPT !.decay = Append(@, [before |-> e.p0, after |-> Pt(x, y),
                                             moved |-> FALSE, contained |-> FALSE])]
    IN  InertiaMoved(s0,
                     [_addOffset(s0, Pt(x, y)) EXCEPT
                         !._offset = _sanitizeOffset(_addOffset(s0, Pt(x, y)),
                                                     _addOffset(s0, Pt(x, y))._offset)],
                     [e EXCEPT !.p0 = Pt(x, y)])

(* the frame of _realizeInertia without the friction *)
InertiaFrameNoFriction(s, e) ==
    InertiaVelocity(s, e, e.p0.x, e.p0.y)

(* renderFrame of _realizeInertia; x and y live in the session (e.p0) *)
InertiaFrame(s, e) ==
    InertiaVelocity(s, e, RMul(e.p0.x, props.inertiaFriction), RMul(e.p0.y, props.inertiaFriction))

(* updateProgress of _handleDoubleTap and of _zoomOutAnimation *)
ZoomProgress(s, e, progress) ==
    _scaleTo(s, RAdd(e.z0, RMul(progress, RSub(e.z1, e.z0))), e.p0)

(* updateFrame of scaleTo (sanitized = FALSE) and of alignCenter (TRUE):
   z0 startZoomFactor, z1 diffZoomFactor, p0 startOffset, p1 diffOffset *)
ScaleToOffset(s1, offset, sanitized) ==
    _update([s1 EXCEPT !._offset = IF sanitized THEN _sanitizeOffset(s1, offset) ELSE offset], FALSE)

ScaleToFrame(s, e, progress, sanitized) ==
    ScaleToOffset([s EXCEPT !._zoomFactor = RAdd(e.z0, RMul(e.z1, progress))],
                  Pt(RAdd(e.p0.x, RMul(e.p1.x, progress)), RAdd(e.p0.y, RMul(e.p1.y, progress))),
                  sanitized)

(* updateProgress of _sanitizeOffsetAnimation: p0 startOffset, p1 targetOffset *)
SanitizeProgress(s, e, progress) ==
    _update([s EXCEPT !._offset = Pt(Lerp(e.p0.x, e.p1.x, progress), Lerp(e.p0.y, e.p1.y, progress))],
            FALSE)

(* frameFn(progress) of the session e: the instance and the session after it *)
frameFn(s, e, progress) ==
    CASE e.fn = "_realizeInertia" -> InertiaFrame(s, e)
      [] e.fn \in {"_handleDoubleTap", "_zoomOutAnimation"} -> [s |-> ZoomProgress(s, e, progress), e |-> e]
      [] e.fn \in {"scaleTo", "alignCenter"} ->
            [s |-> ScaleToFrame(s, e, progress, e.fn = "alignCenter"), e |-> e]
      [] e.fn = "_sanitizeOffsetAnimation" -> [s |-> SanitizeProgress(s, e, progress), e |-> e]

callback(s, e) ==
    IF e.callback = "_sanitize" THEN _sanitize(s) ELSE s

(* renderFrame of _animate after frameFn, r being what frameFn left: at the
   end of the duration this._stopAnimation(); callback(); this._update(),
   before it this._update({ isAnimation: true });
   requestAnimationFrame(renderFrame) *)
Rendered(r, e) ==
    IF e.frameTime >= e.duration
    THEN _update(callback(Fate(_stopAnimation(Stopping(r.s, e)), e, "finished"), e), FALSE)
    ELSE [_update(Fate(r.s, e, "ran"), TRUE) EXCEPT
             !.rafQueue = Append(@, [r.e EXCEPT !.ticks = @ + 1])]

(* renderFrame of _animate for the session e *)
renderFrame(s, e) ==
    IF ~s._inAnimation THEN Fate(s, e, "dropped")
    ELSE Rendered(frameFn(s, e, IF e.frameTime >= e.duration THEN R(1)
                                ELSE swing(Norm(e.frameTime, e.duration))),
                  e)

(* the callback _update hands to requestAnimationFrame *)
PlannedUpdate(s) ==
    updateFrame([s EXCEPT !._updatePlaned = FALSE])

(* one display frame: the callbacks queued for it run in the order of their requests *)
RECURSIVE RunBatch(_)
RunBatch(s) ==
    IF s.batch = <<>> THEN s
    ELSE LET e == Head(s.batch)
             s1 == [s EXCEPT !.batch = Tail(@)]
         IN  RunBatch(IF e.kind = "update" THEN PlannedUpdate(s1) ELSE renderFrame(s1, e))

----------------------------------------------------------------------------
(* Gestures *)

(* _handleDrag without this._offset = this._sanitizeOffset(this._offset) *)
DraggedUnclamped(s, touch, s1) ==
    [s1 EXCEPT !._lastDragPosition = Some(touch),
               !.dragged = Append(@, [touch |-> touch, last |-> s._lastDragPosition,
                                      before |-> s._offset, moved |-> s1._offset,
                                      after |-> s1._offset,
                                      contained |-> _sanitizeOffset(s, s._offset) = s._offset])]

(* the statements of _handleDrag after _drag, s1 being the instance after
   _drag; the observer notes the step *)
Dragged(s, touch, s1) ==
    [s1 EXCEPT !._offset = _sanitizeOffset(s1, s1._offset),
               !._lastDragPosition = Some(touch),
               !.dragged = Append(@, [touch |-> touch, last |-> s._lastDragPosition,
                                      before |-> s._offset, moved |-> s1._offset,
                                      after |-> _sanitizeOffset(s1, s1._offset),
                                      contained |-> _sanitizeOffset(s, s._offset) = s._offset])]

_handleDrag(s, event) ==
    Dragged(s, _getOffsetByFirstTouch(s, event),
            _drag(s, _getOffsetByFirstTouch(s, event), s._lastDragPosition))

_handleDragStart(s, event) ==
    _handleDrag([_resetInertia(_stopAnimation(Supersede(
                     Notify([s EXCEPT !._ignoreNextClick = TRUE], "onDragStart"))))
                    EXCEPT !._lastDragPosition = None, !._hasInteraction = TRUE],
                event)

_realizeInertia(s) ==
    IF ~props.inertia \/ s._velocity = None THEN s
    ELSE LET x == s._velocity[1].x
             y == s._velocity[1].y
         IN  IF Truthy(x) \/ Truthy(y)
             THEN _animate(_resetInertia(_stopAnimation(s)),
                           Session("_realizeInertia", R(0), R(0), Pt(x, y), Pt(x, y)),
                           [duration |-> 9999, callback |-> "none"])
             ELSE s

_collectInertia(s, event) ==
    IF ~props.inertia THEN s
    ELSE [s EXCEPT
             !._velocity = IF s._prevDragMovePoint # None
                           THEN Some(calculateVelocity(getPageCoordinatesByTouches(event.touches)[1],
                                                       s._prevDragMovePoint[1]))
                           ELSE @,
             !._prevDragMovePoint = Some(getPageCoordinatesByTouches(event.touches)[1])]

_handleDragEnd(s) ==
    _realizeInertia(_end(Notify(s, "onDragEnd")))

_handleZoomStart(s) ==
    [_stopAnimation(Supersede(Notify(s, "onZoomStart"))) EXCEPT
        !._lastScale = R(1), !._nthZoom = 0, !._lastZoomCenter = None, !._hasInteraction = TRUE]

ZoomAround(s1, scale, touchCenter) ==
    [(IF s1._nthZoom > 3
      THEN _drag(_scale(s1, scale, touchCenter), touchCenter, s1._lastZoomCenter)
      ELSE s1) EXCEPT !._lastZoomCenter = Some(touchCenter)]

_handleZoom(s, event, newScale) ==
    ZoomAround([s EXCEPT !._lastScale = newScale, !._nthZoom = @ + 1],
               RDiv(newScale, s._lastScale),
               getVectorAvg(_getOffsetTouches(s, event)))

_handleZoomEnd(s) ==
    _end(Notify(s, "onZoomEnd"))

DoubleTapZoom(s, startZoomFactor, zoomFactor, event) ==
    _animate([Notify(s, "onDoubleTap") EXCEPT !._ignoreNextClick = TRUE, !._isDoubleTap = TRUE],
             ZoomSession("_handleDoubleTap", startZoomFactor, zoomFactor,
                         IF RGt(startZoomFactor, zoomFactor) THEN _getCurrentZoomCenter(s)
                         ELSE _getOffsetByFirstTouch(s, event)),
             DefaultAnimateOptions)

_handleDoubleTap(s, event) ==
    IF s._hasInteraction THEN s
    ELSE DoubleTapZoom(s, s._zoomFactor, RAdd(s._zoomFactor, props.tapZoomFactor), event)

InteractionEnded(s, newInteraction) ==
    IF s._interaction # newInteraction /\ s._interaction # "none" /\ newInteraction = "none"
    THEN IF isZoomInteraction(s._interaction) THEN _handleZoomEnd(s)
         ELSE IF isDragInteraction(s._interaction) THEN _handleDragEnd(s)
         ELSE s
    ELSE s

InteractionStarted(s1, interaction, newInteraction, event) ==
    IF interaction # newInteraction
    THEN IF isZoomInteraction(newInteraction) THEN _handleZoomStart(s1)
         ELSE IF isDragInteraction(newInteraction) THEN _handleDragStart(s1, event)
         ELSE s1
    ELSE s1

_setInteraction(s, newInteraction, event) ==
    [InteractionStarted(InteractionEnded(s, newInteraction), s._interaction, newInteraction, event)
        EXCEPT !._interaction = newInteraction]

_updateInteraction(s, event) ==
    _setInteraction(s, IF s._fingers = 2 THEN "zoom"
                       ELSE IF s._fingers = 1 /\ _canDrag(s) THEN "drag"
                       ELSE "none",
                    event)

(* sinceLastTouchStart is time - this._lastTouchStart, saturated at 300 *)
DoubleTapped(s) ==
    IF isZoomInteraction(s._interaction) THEN _handleZoomEnd(s)
    ELSE IF isDragInteraction(s._interaction) THEN _handleDragEnd(s)
    ELSE s

(* observer (tapRun): the touch-starts in a row that came less than 300 ms apart *)
TouchStarted(s2, quick, fingers) ==
    [s2 EXCEPT !.tapRun = IF quick THEN (IF @ < 3 THEN @ + 1 ELSE 3)
                          ELSE IF fingers = 1 THEN 1 ELSE 0,
               !.sinceLastTouchStart = IF fingers = 1 THEN 0 ELSE @]

DoubleTapDetected(s1, event) ==
    TouchStarted(IF s1.sinceLastTouchStart < 300
                 THEN DoubleTapped(_handleDoubleTap(Notify(s1, "cancelEvent"), event))
                 ELSE [s1 EXCEPT !._isDoubleTap = FALSE],
                 s1.sinceLastTouchStart < 300, s1._fingers)

_detectDoubleTap(s, event) ==
    DoubleTapDetected(IF s._fingers > 1 THEN [s EXCEPT !.sinceLastTouchStart = 300] ELSE s, event)

(* _handlerIfEnable(fn): t is the instance after fn *)
_handlerIfEnable(s, t) ==
    IF props.enabled THEN t ELSE s

_handlerOnTouchEnd(s, touchEndEvent) ==
    _handlerIfEnable(s,
        _updateInteraction([s EXCEPT !._fingers = Len(touchEndEvent.touches)], touchEndEvent))

_handlerOnTouchStart(s, touchStartEvent) ==
    _handlerIfEnable(s,
        _detectDoubleTap([s EXCEPT !._firstMove = TRUE, !._fingers = Len(touchStartEvent.touches)],
                         touchStartEvent))

FirstMove(s, touchMoveEvent) ==
    [(IF s._interaction # "none" THEN Notify(s, "cancelEvent") ELSE s) EXCEPT
        !._startTouches = getPageCoordinatesByTouches(touchMoveEvent.touches)]

LaterMove(s) ==
    IF s._interaction # "none" THEN _update(Notify(s, "cancelEvent"), FALSE) ELSE s

Moved(s1, touchMoveEvent) ==
    [(IF s1._firstMove
      THEN FirstMove(_updateInteraction(s1, touchMoveEvent), touchMoveEvent)
      ELSE LaterMove(IF isZoomInteraction(s1._interaction)
                     THEN IF Len(s1._startTouches) = 2 /\ Len(touchMoveEvent.touches) = 2
                          THEN _handleZoom(s1, touchMoveEvent,
                                   calculateScale(s1._startTouches,
                                       getPageCoordinatesByTouches(touchMoveEvent.touches)))
                          ELSE s1
                     ELSE IF isDragInteraction(s1._interaction)
                     THEN _handleDrag(s1, touchMoveEvent)
                     ELSE s1))
        EXCEPT !._firstMove = FALSE]

_handlerOnTouchMove(s, touchMoveEvent) ==
    _handlerIfEnable(s,
        IF s._isDoubleTap THEN s ELSE Moved(_collectInertia(s, touchMoveEvent), touchMoveEvent))

(* simulate(fn)(mouseEvent), mouseEvent being [type, pageX, pageY]: the
   instance on which fn is called, the event it is called with, and the
   instance after the call, t being the instance after fn *)
Listening(s, mouseEvent) ==
    IF mouseEvent.type = "mousedown" THEN [s EXCEPT !._listenMouseMove = TRUE] ELSE s

LikeTouchEvent(mouseEvent) ==
    [touches |-> IF mouseEvent.type = "mouseup" THEN <<>>
                 ELSE <<Pt(mouseEvent.pageX, mouseEvent.pageY)>>]

simulate(s, mouseEvent, t) ==
    [(IF Listening(s, mouseEvent)._listenMouseMove THEN t ELSE Listening(s, mouseEvent)) EXCEPT
        !._listenMouseMove = IF mouseEvent.type = "mouseup" THEN FALSE ELSE @]

isZoomGesture(wheelEvent) ==
    props.isMac /\ wheelEvent.ctrlKey

WheelScaled(s, dScale, center) ==
    _update(_scaleTo(s, RSub(s._zoomFactor, RDiv(dScale, props.wheelScaleFactor)), center), FALSE)

_handlerWheel(s, wheelEvent) ==
    IF shouldInterceptWheel(wheelEvent) THEN s
    ELSE [WheelScaled(_stopAnimation(Supersede(Notify(s, "cancelEvent"))),
                      RMul(wheelEvent.deltaY,
                           IF isZoomGesture(wheelEvent) \/ wheelEvent.deltaMode = 1 THEN R(15) ELSE R(1)),
                      _getOffsetByFirstTouch(s, [touches |-> <<Pt(wheelEvent.pageX, wheelEvent.pageY)>>]))
             EXCEPT !._wheelTimeOut = 0]

----------------------------------------------------------------------------
(* Public commands and resize *)

(* options is { duration: 250, animated: true, ...options } *)
(* the end of scaleTo and of alignCenter, s2 being the instance scaled to
   the target: without animation this._update(), with it the instance goes
   back to where it started (s) and is animated to the target *)
CommandScaled(s, s2, fn, options) ==
    IF ~options.animated THEN _update(s2, FALSE)
    ELSE _animate([s2 EXCEPT !._zoomFactor = s._zoomFactor, !._offset = s._offset],
                  [Session(fn, s._zoomFactor, RSub(s2._zoomFactor, s._zoomFactor), s._offset,
                           Pt(RSub(s2._offset.x, s._offset.x), RSub(s2._offset.y, s._offset.y)))
                      EXCEPT !.api = TRUE],
                  [duration |-> options.duration, callback |-> "_sanitize"])

scaleTo(s, options) ==
    CommandScaled(s,
        _stopAnimation(Supersede(_scaleTo([s EXCEPT !._zoomFactor = R(1), !._offset = Pt(R(0), R(0))],
                                          options.scale, Pt(options.x, options.y)))),
        "scaleTo", options)

ContainerCenter(s) ==
    Pt(RDiv(_getContainerRect(s).width, R(2)), RDiv(_getContainerRect(s).height, R(2)))

alignCenter(s, options) ==
    CommandScaled(s,
        _stopAnimation(Supersede(_scaleTo(
            [s EXCEPT !._zoomFactor = R(1),
                      !._offset = Pt(RNeg(RSub(ContainerCenter(s).x, options.x)),
                                     RNeg(RSub(ContainerCenter(s).y, options.y)))],
            options.scale, ContainerCenter(s)))),
        "alignCenter", options)

(* -Math.abs(childLength * this._getInitialZoomFactor() - rectLength) / 2 *)
InitialOffsetAxis(s, childLength, rectLength) ==
    RDiv(RNeg(abs(RSub(RMul(childLength, _getInitialZoomFactor(s)), rectLength))), R(2))

_computeInitialOffset(s) ==
    [s EXCEPT !._initialOffset = Pt(InitialOffsetAxis(s, _getChildSize(s).width, _getContainerRect(s).width),
                                    InitialOffsetAxis(s, _getChildSize(s).height, _getContainerRect(s).height))]

_resetOffset(s) ==
    [s EXCEPT !._offset = s._initialOffset]

_setupOffsets(s) ==
    IF props.setOffsetsOnce /\ s._isOffsetsSet THEN s
    ELSE _resetOffset(_computeInitialOffset([s EXCEPT !._isOffsetsSet = TRUE]))

_updateInitialZoomFactor(s) ==
    [s EXCEPT !._initialZoomFactor = min(RDiv(_getContainerRect(s).width, _getChildSize(s).width),
                                         RDiv(_getContainerRect(s).height, _getChildSize(s).height))]

_onResize(s) ==
    _update(_setupOffsets(_updateInitialZoomFactor(s)), FALSE)

----------------------------------------------------------------------------
(* Bounds of the model *)

(* input events and commands in one run, when every kind of input is offered *)
MaxInputs ==
    3

(* touch events in one run, when only touch events are offered *)
MaxTouchInputs ==
    7

(* mouse and wheel events in one run of a drag with lockDragAxis *)
MaxAxisInputs ==
    5

(* display frames 125 ms apart that one inertia session may see; the frames
   after them come 5000 ms apart *)
MaxInertiaTicks ==
    3

----------------------------------------------------------------------------
(* The environment: props, geometry, inputs *)

DefaultProps ==
    [animationDuration |-> 250, draggableUnZoomed |-> TRUE, enabled |-> TRUE, inertia |-> TRUE,
     inertiaFriction |-> Norm(1, 2), horizontalPadding |-> R(0), isTouch |-> TRUE,
     lockDragAxis |-> FALSE, maxZoom |-> R(5), minZoom |-> Norm(1, 2), setOffsetsOnce |-> FALSE,
     tapZoomFactor |-> R(1), verticalPadding |-> R(0), wheelScaleFactor |-> R(1500),
     zoomOutFactor |-> Norm(13, 10), isMac |-> FALSE]

Geometry(w, h, cw, ch) ==
    [rect |-> [top |-> R(2), left |-> R(1), width |-> R(w), height |-> R(h)],
     child |-> [offsetWidth |-> R(cw), offsetHeight |-> R(ch), styleWidth |-> R(cw), styleHeight |-> R(ch)]]

WheelEvent(dy, ctrl) ==
    [pageX |-> R(5), pageY |-> R(6), deltaY |-> R(dy), deltaMode |-> 0, ctrlKey |-> ctrl, metaKey |-> FALSE]

Options(x, y, scale, animated) ==
    [x |-> R(x), y |-> R(y), scale |-> R(scale), animated |-> animated, duration |-> 250]

(* what the input source and the host offer in a run; the pairs are two
   fingers one unit apart, the same two fingers moved by two units, and two
   fingers six units apart *)
EnvAll ==
    [points |-> {Pt(R(4), R(6)), Pt(R(7), R(7))},
     pairs |-> {<<Pt(R(4), R(6)), Pt(R(5), R(6))>>, <<Pt(R(4), R(6)), Pt(R(10), R(6))>>},
     wheels |-> {WheelEvent(-9000, TRUE), WheelEvent(1500, TRUE), WheelEvent(1500, FALSE)},
     scaleTos |-> {Options(2, 2, 8, TRUE), Options(2, 2, 2, FALSE)},
     aligns |-> {Options(2, 2, 2, TRUE)},
     geometries |-> {Geometry(8, 8, 8, 4), Geometry(8, 8, 4, 4)},
     maxInputs |-> MaxInputs]

EnvGesture ==
    [points |-> {Pt(R(4), R(6)), Pt(R(7), R(7))},
     pairs |-> {<<Pt(R(4), R(6)), Pt(R(5), R(6))>>, <<Pt(R(6), R(6)), Pt(R(7), R(6))>>,
                <<Pt(R(4), R(6)), Pt(R(10), R(6))>>},
     wheels |-> {}, scaleTos |-> {}, aligns |-> {},
     geometries |-> {Geometry(8, 8, 8, 4)},
     maxInputs |-> MaxTouchInputs]

EnvAxis ==
    [points |-> {Pt(R(4), R(6)), Pt(R(7), R(7)), Pt(R(5), R(9))}, pairs |-> {},
     wheels |-> {WheelEvent(-9000, TRUE)}, scaleTos |-> {}, aligns |-> {},
     geometries |-> {Geometry(8, 8, 8, 4)},
     maxInputs |-> MaxAxisInputs]

TouchLists(n) ==
    IF n = 0 THEN {<<>>} ELSE IF n = 1 THEN {<<p>> : p \in env.points} ELSE env.pairs

----------------------------------------------------------------------------
(* State *)

InstanceFields ==
    {"_velocity", "_prevDragMovePoint", "_fingers", "_firstMove", "_hasInteraction", "_inAnimation",
     "_initialOffset", "_interaction", "_isDoubleTap", "_isOffsetsSet", "_lastDragPosition",
     "_lastScale", "sinceLastTouchStart", "_lastZoomCenter", "_listenMouseMove", "_nthZoom",
     "_offset", "_startTouches", "_updatePlaned", "_wheelTimeOut", "_zoomFactor",
     "_initialZoomFactor", "_ignoreNextClick"}

HostFields ==
    {"rect", "child", "scrollTop", "scrollLeft", "rafQueue", "batch", "fingersDown"}

ObserverFields ==
    {"emitted", "updates", "calls", "scaled", "decay", "fates", "settles", "settled", "inputs", "last", "tapRun", "dragged",
     "clamped", "open", "unpaired", "inertiaEnded"}

World ==
    pz @@ host @@ obs

Commit(r) ==
    /\ pz' = [f \in InstanceFields |-> r[f]]
    /\ host' = [f \in HostFields |-> r[f]]
    /\ obs' = [f \in ObserverFields |-> r[f]]
    /\ UNCHANGED <<props, env>>

(* the instance after construction and componentDidMount, which calls _update *)
InitInstance ==
    /\ pz = [_velocity |-> None, _prevDragMovePoint |-> None, _fingers |-> 0, _firstMove |-> TRUE,
             _hasInteraction |-> FALSE, _inAnimation |-> FALSE, _initialOffset |-> Pt(R(0), R(0)),
             _interaction |-> "none", _isDoubleTap |-> FALSE, _isOffsetsSet |-> FALSE,
             _lastDragPosition |-> None, _lastScale |-> R(1), sinceLastTouchStart |-> 300,
             _lastZoomCenter |-> None, _listenMouseMove |-> FALSE, _nthZoom |-> 0,
             _offset |-> Pt(R(0), R(0)), _startTouches |-> <<>>, _updatePlaned |-> TRUE,
             _wheelTimeOut |-> -1, _zoomFactor |-> R(1), _initialZoomFactor |-> R(1),
             _ignoreNextClick |-> FALSE]
    /\ \E g \in env.geometries :
          host = [rect |-> g.rect, child |-> g.child, scrollTop |-> R(0), scrollLeft |-> R(0),
                  rafQueue |-> <<UpdateEntry>>, batch |-> <<>>, fingersDown |-> 0]
    /\ obs = [emitted |-> <<>>, updates |-> <<>>, calls |-> <<>>, scaled |-> <<>>, decay |-> <<>>, fates |-> <<>>,
              settles |-> 0, settled |-> FALSE, inputs |-> 0, last |-> <<"init">>, tapRun |-> 0,
              dragged |-> <<>>, clamped |-> FALSE, open |-> {}, unpaired |-> {},
              inertiaEnded |-> FALSE]

Init ==
    /\ props \in {DefaultProps, [DefaultProps EXCEPT !.isTouch = FALSE]}
    /\ env = EnvAll
    /\ InitInstance

InitGesture ==
    /\ props = DefaultProps
    /\ env = EnvGesture
    /\ InitInstance

InitAxis ==
    /\ props = [DefaultProps EXCEPT !.isTouch = FALSE, !.lockDragAxis = TRUE]
    /\ env = EnvAxis
    /\ InitInstance

(* the observer's notes are per handler *)
Begin(s, what) ==
    [s EXCEPT !.calls = <<>>, !.updates = <<>>, !.scaled = <<>>, !.decay = <<>>, !.fates = <<>>, !.settles = 0,
              !.dragged = <<>>, !.unpaired = {}, !.last = what]

(* an input or a command: it ends the wait of the settle and of the command before it *)
Input(s, what) ==
    [Begin(s, what) EXCEPT !.inputs = @ + 1, !.settled = FALSE, !.clamped = FALSE, !.inertiaEnded = FALSE,
                           !.rafQueue = [i \in 1..Len(@) |-> [@[i] EXCEPT !.api = FALSE, !.quiet = FALSE]]]

Min(a, b) ==
    IF a < b THEN a ELSE b

----------------------------------------------------------------------------
(* Actions *)

(* one or two fingers land *)
TouchStart ==
    /\ props.isTouch
    /\ obs.inputs < env.maxInputs
    /\ \E n \in (host.fingersDown + 1)..2 : \E touches \in TouchLists(n) :
          Commit(_handlerOnTouchStart(
              [Input(World, <<"touchstart", touches>>) EXCEPT !.fingersDown = n],
              [touches |-> touches]))

TouchMove ==
    /\ props.isTouch
    /\ obs.inputs < env.maxInputs
    /\ host.fingersDown > 0
    /\ \E touches \in TouchLists(host.fingersDown) :
          Commit(_handlerOnTouchMove(Input(World, <<"touchmove", touches>>), [touches |-> touches]))

(* one or two fingers lift *)
TouchEnd ==
    /\ props.isTouch
    /\ obs.inputs < env.maxInputs
    /\ \E n \in 0..(host.fingersDown - 1) : \E touches \in TouchLists(n) :
          Commit(_handlerOnTouchEnd(
              [Input(World, <<"touchend", touches>>) EXCEPT !.fingersDown = n],
              [touches |-> touches]))

(* a mouse button goes down, the first one or one more *)
MouseDown ==
    /\ ~props.isTouch
    /\ obs.inputs < env.maxInputs
    /\ \E p \in env.points :
          LET mouseEvent == [type |-> "mousedown", pageX |-> p.x, pageY |-> p.y]
              s == [Input(World, <<"mousedown", <<p>>>>) EXCEPT !.fingersDown = 1]
          IN  Commit(simulate(s, mouseEvent,
                  _handlerOnTouchStart(Listening(s, mouseEvent), LikeTouchEvent(mouseEvent))))

MouseMove ==
    /\ ~props.isTouch
    /\ obs.inputs < env.maxInputs
    /\ \E p \in env.points :
          LET mouseEvent == [type |-> "mousemove", pageX |-> p.x, pageY |-> p.y]
              s == Input(World, <<"mousemove", <<p>>>>)
          IN  Commit(simulate(s, mouseEvent,
                  _handlerOnTouchMove(Listening(s, mouseEvent), LikeTouchEvent(mouseEvent))))

MouseUp ==
    /\ ~props.isTouch
    /\ obs.inputs < env.maxInputs
    /\ host.fingersDown = 1
    /\ \E p \in env.points :
          LET mouseEvent == [type |-> "mouseup", pageX |-> p.x, pageY |-> p.y]
              s == [Input(World, <<"mouseup", <<p>>>>) EXCEPT !.fingersDown = 0]
          IN  Commit(simulate(s, mouseEvent,
                  _handlerOnTouchEnd(Listening(s, mouseEvent), LikeTouchEvent(mouseEvent))))

Wheel ==
    /\ ~props.isTouch
    /\ obs.inputs < env.maxInputs
    /\ \E w \in env.wheels :
          Commit(_handlerWheel(Input(World, <<"wheel", w>>), w))

(* the timer of _handlerWheel fires: setTimeout(() => this._sanitize(), 100) *)
WheelTimeout ==
    /\ pz._wheelTimeOut >= 100
    /\ Commit(_sanitize([Begin(World, <<"timeout">>) EXCEPT !._wheelTimeOut = -1]))

ScaleTo ==
    /\ obs.inputs < env.maxInputs
    /\ \E o \in env.scaleTos :
          Commit(scaleTo(Input(World, <<"scaleTo", o>>), o))

AlignCenter ==
    /\ obs.inputs < env.maxInputs
    /\ \E o \in env.aligns :
          Commit(alignCenter(Input(World, <<"alignCenter", o>>), o))

(* the host reports a resize or a loaded image, with the geometry g *)
Resize ==
    /\ obs.inputs < env.maxInputs
    /\ \E g \in env.geometries :
          Commit(_onResize([Input(World, <<"resize">>) EXCEPT !.rect = g.rect, !.child = g.child]))

Elapse(queue, dt) ==
    [i \in 1..Len(queue) |-> [queue[i] EXCEPT !.frameTime = Min(@ + dt, queue[i].duration)]]

(* the time to the next display frame *)
FrameStep(queue) ==
    IF \E i \in 1..Len(queue) : queue[i].fn = "_realizeInertia" /\ queue[i].ticks >= MaxInertiaTicks
    THEN 5000 ELSE 125

(* the instance after the time to the next display frame has passed and the
   display has run the requestAnimationFrame callbacks *)
FrameResult ==
    LET dt == FrameStep(host.rafQueue)
    IN  RunBatch([Begin(World, <<"frame">>) EXCEPT
                    !.sinceLastTouchStart = Min(@ + dt, 300),
                    !._wheelTimeOut = IF @ < 0 THEN @ ELSE Min(@ + dt, 100),
                    !.batch = Elapse(host.rafQueue, dt),
                    !.rafQueue = <<>>])

Frame ==
    /\ pz._wheelTimeOut < 100
    /\ Commit(FrameResult)

Next ==
    \/ TouchStart
    \/ TouchMove
    \/ TouchEnd
    \/ MouseDown
    \/ MouseMove
    \/ MouseUp
    \/ Wheel
    \/ WheelTimeout
    \/ ScaleTo
    \/ AlignCenter
    \/ Resize
    \/ Frame

Spec ==
    Init /\ [][Next]_vars

NextGesture ==
    \/ TouchStart
    \/ TouchMove
    \/ TouchEnd
    \/ Frame

SpecGesture ==
    InitGesture /\ [][NextGesture]_vars

(* a frame would change the state: ENABLED <<Frame>>_vars as a state predicate *)
FrameDue ==
    pz._wheelTimeOut < 100 /\ FrameResult # World

(* the display keeps producing frames: WF_vars(Frame), with its enabling
   condition spelled out *)
FairGesture ==
    SpecGesture /\ (<>[]FrameDue => []<><<Frame>>_vars)

NextAxis ==
    \/ MouseDown
    \/ MouseMove
    \/ MouseUp
    \/ Wheel
    \/ WheelTimeout
    \/ Frame

SpecAxis ==
    InitAxis /\ [][NextAxis]_vars

(* draggableUnZoomed off, on a touch device and on a mouse device whose
   wheel zooms in to maxZoom and back out to 1 *)
InitUnZoomed ==
    /\ \/ /\ props = [DefaultProps EXCEPT !.draggableUnZoomed = FALSE]
          /\ env = [EnvGesture EXCEPT !.pairs = {<<Pt(R(4), R(6)), Pt(R(5), R(6))>>,
                                                <<Pt(R(4), R(6)), Pt(R(10), R(6))>>}]
       \/ /\ props = [DefaultProps EXCEPT !.draggableUnZoomed = FALSE, !.isTouch = FALSE]
          /\ env = [EnvAxis EXCEPT !.points = {Pt(R(4), R(6)), Pt(R(5), R(9))},
                                   !.wheels = {WheelEvent(-9000, TRUE), WheelEvent(6000, TRUE)}]
    /\ InitInstance

NextPointer ==
    \/ TouchStart
    \/ TouchMove
    \/ TouchEnd
    \/ MouseDown
    \/ MouseMove
    \/ MouseUp
    \/ Wheel
    \/ WheelTimeout
    \/ Frame

SpecUnZoomed ==
    InitUnZoomed /\ [][NextPointer]_vars

(* the component with the enabled prop switched off *)
InitDisabled ==
    /\ props \in {[DefaultProps EXCEPT !.enabled = FALSE],
                  [DefaultProps EXCEPT !.enabled = FALSE, !.isTouch = FALSE]}
    /\ env = EnvAll
    /\ InitInstance

SpecDisabled ==
    InitDisabled /\ [][NextPointer]_vars

(* the host may report a content or a container of size zero *)
InitZero ==
    /\ props \in {DefaultProps, [DefaultProps EXCEPT !.isTouch = FALSE]}
    /\ env = [EnvAll EXCEPT !.geometries = {Geometry(8, 8, 8, 4), Geometry(8, 8, 0, 0), Geometry(0, 0, 8, 4)}]
    /\ InitInstance

SpecZero ==
    InitZero /\ [][Next]_vars

(* touch gestures whose two fingers may land on one point *)
InitPinch ==
    /\ props = DefaultProps
    /\ env = [EnvGesture EXCEPT !.pairs = {<<Pt(R(4), R(6)), Pt(R(4), R(6))>>,
                                          <<Pt(R(4), R(6)), Pt(R(5), R(6))>>}]
    /\ InitInstance

SpecPinch ==
    InitPinch /\ [][NextGesture]_vars

(* _sanitizeOffset as a function of its inputs: the paddings and the sizes
   of container and content are drawn at the start, the offset, the
   zoomFactor and the initialZoomFactor at each application *)
InitBounds ==
    /\ props \in {[DefaultProps EXCEPT !.horizontalPadding = R(h), !.verticalPadding = R(v)] :
                      h \in {0, 2}, v \in {0, 1}}
    /\ env = EnvAll
    /\ InitInstance

(* this._offset = this._sanitizeOffset(offset) *)
SanitizeOffset ==
    /\ \E x \in {-6, -1, 0, 3}, y \in {-6, -1, 0, 3}, z \in {Norm(1, 2), R(1), R(2)}, iz \in {R(1), R(2)} :
          LET s == [World EXCEPT !.last = <<"_sanitizeOffset", Pt(R(x), R(y))>>,
                                 !._zoomFactor = z, !._initialZoomFactor = iz]
          IN  Commit([s EXCEPT !._offset = _sanitizeOffset(s, Pt(R(x), R(y)))])

SpecBounds ==
    InitBounds /\ [][SanitizeOffset]_vars

----------------------------------------------------------------------------
(* Claims *)

InZoomRange(z) ==
    RLe(props.minZoom, z) /\ RLe(z, props.maxZoom)

(* C1: with minZoom <= 1 <= maxZoom, after every handler, timer and frame the
   zoomFactor is within [minZoom, maxZoom], and so is the zoomFactor of every
   transform handed to onUpdate (its scale divided by the initialZoomFactor) *)
C1_ZoomClamp ==
    /\ InZoomRange(pz._zoomFactor)
    /\ \A i \in 1..Len(obs.updates) :
          InZoomRange(RDiv(obs.updates[i].scale, pz._initialZoomFactor))

(* since the last input a scale request beyond the range was cut, the
   instance settled at maxZoom and that zoom was handed to onUpdate *)
C1_Witness ==
    /\ obs.clamped
    /\ pz._zoomFactor = props.maxZoom
    /\ obs.settled
    /\ \E i \in 1..Len(obs.updates) :
          obs.updates[i].scale = RMul(pz._initialZoomFactor, props.maxZoom)

(* no animation session is waiting for a display frame *)
NoSessionPending ==
    \A i \in 1..Len(host.rafQueue) : host.rafQueue[i].kind # "anim"

OffsetContained ==
    _sanitizeOffset(World, pz._offset) = pz._offset

(* C2: after a settle, once the animation it started (if any) has run to its
   end and no input followed, the offset is inside the bounds:
   sanitizeOffset(offset) == offset *)
C2_OffsetContainment ==
    (obs.settled /\ NoSessionPending) => OffsetContained


(* C3: with frames firing and no input after the call, the animation of an
   animated scaleTo or alignCenter is never dropped before its final frame,
   and the frame in which it finishes invokes settle *)
C3_CommandAnimationCompletes ==
    \A i \in 1..Len(obs.fates) :
        obs.fates[i].api =>
            /\ obs.fates[i].what # "dropped"
            /\ (obs.fates[i].what = "finished" => obs.settles >= 1)

Quiescent ==
    host.rafQueue = <<>> /\ pz._wheelTimeOut = -1

(* C4: in a state with no frame callback and no timer pending, the transform
   last handed to onUpdate is the one derived from the current offset,
   zoomFactor and initialZoomFactor *)
C4_UpdateReachesObserver ==
    Quiescent => obs.emitted = <<UpdateAction(World)>>

DoubleTapSessions ==
    {e \in {host.rafQueue[i] : i \in 1..Len(host.rafQueue)} :
        e.kind = "anim" /\ e.fn = "_handleDoubleTap" /\ e.current}

(* C5: a second touch-start less than 300 ms after the first, from
   zoomFactor 1, starts an animation to zoomFactor 2, and a third one less
   than 300 ms after the second starts an animation whose target is below the
   zoomFactor at that time *)
C5_DoubleTapToggle ==
    obs.last[1] = "touchstart" =>
        /\ obs.tapRun = 2 => \E e \in DoubleTapSessions : e.z0 = R(1) => e.z1 = R(2)
        /\ obs.tapRun = 3 => \E e \in DoubleTapSessions : RLt(e.z1, e.z0)

(* C9: the frame function of a session runs only while the session is the
   one requested last, and a session that finishes or stops itself does not
   stop the session requested after it *)
C9_SingleSession ==
    \A i \in 1..Len(obs.fates) :
        /\ obs.fates[i].what \in {"ran", "finished"} => obs.fates[i].current
        /\ obs.fates[i].what # "stopsNewer"

Before(calls, a, b) ==
    \E i \in 1..Len(calls) : \E j \in (i + 1)..Len(calls) : calls[i] = a /\ calls[j] = b

(* C10: a handler that takes the interaction from drag to zoom runs the drag
   end handler before the zoom start handler, and one that takes it from zoom
   to drag runs the zoom end handler before the drag start handler *)
C10_EndBeforeStart ==
    [][/\ (pz._interaction = "drag" /\ pz'._interaction = "zoom")
              => Before(obs'.calls, "onDragEnd", "onZoomStart")
       /\ (pz._interaction = "zoom" /\ pz'._interaction = "drag")
              => Before(obs'.calls, "onZoomEnd", "onDragStart")]_vars

DragDelta(d) ==
    Pt(RSub(d.touch.x, d.last[1].x), RSub(d.touch.y, d.last[1].y))

DragSteps ==
    {obs.dragged[i] : i \in {j \in 1..Len(obs.dragged) : obs.dragged[j].last # None}}

(* C6 as stated: with lockDragAxis, a drag step whose delta is larger on one
   axis leaves the offset of the other axis as it was before the step *)
C6_AxisLockWholeStep ==
    \A d \in DragSteps :
        /\ RGt(abs(DragDelta(d).x), abs(DragDelta(d).y)) => d.after.y = d.before.y
        /\ RGt(abs(DragDelta(d).y), abs(DragDelta(d).x)) => d.after.x = d.before.x

(* C6: with lockDragAxis, a drag step whose delta is larger on one axis moves
   the offset on that axis alone before the clamp that ends the step, and
   the whole step leaves the other axis as it was when the offset was within
   the bounds before the step *)
C6_AxisLock ==
    \A d \in DragSteps :
        /\ RGt(abs(DragDelta(d).x), abs(DragDelta(d).y))
              => d.moved.y = d.before.y /\ (d.contained => d.after.y = d.before.y)
        /\ RGt(abs(DragDelta(d).y), abs(DragDelta(d).x))
              => d.moved.x = d.before.x /\ (d.contained => d.after.x = d.before.x)

C6_Witness ==
    \E d \in DragSteps :
        /\ RGt(abs(DragDelta(d).x), abs(DragDelta(d).y))
        /\ ~IsZero(DragDelta(d).y)
        /\ d.moved.x # d.before.x
        /\ d.moved.y = d.before.y
        /\ ~d.contained
        /\ d.after.y # d.before.y

Mag2(v) ==
    RAdd(RMul(v.x, v.x), RMul(v.y, v.y))

InertiaPending ==
    \E i \in 1..Len(host.rafQueue) : host.rafQueue[i].fn = "_realizeInertia"

VelocityDecays ==
    \A i \in 1..Len(obs.decay) : RLt(Mag2(obs.decay[i].after), Mag2(obs.decay[i].before))

InertiaOver ==
    ~InertiaPending

(* C7: every frame of an inertia session makes the velocity strictly smaller
   in magnitude, and with frames firing the inertia session leaves the frame
   queue for good *)
C7_InertiaTerminates ==
    []VelocityDecays /\ <>[]InertiaOver

C7_Witness ==
    /\ obs.decay # <<>>
    /\ VelocityDecays
    /\ InertiaOver
    /\ \E i \in 1..Len(obs.fates) :
          /\ obs.fates[i].fn = "_realizeInertia"
          /\ obs.fates[i].current
          /\ obs.fates[i].what = "finished"

ContentPoint(c, offset, zoomFactor) ==
    Pt(RDiv(RAdd(c.x, offset.x), zoomFactor), RDiv(RAdd(c.y, offset.y), zoomFactor))

(* C8: a scale around the center c by a multiplier k > 0 leaves the content
   point under c where it was, also when the zoom limits cut the multiplier *)
C8_ScaleFixpoint ==
    \A i \in 1..Len(obs.scaled) :
        RGt(obs.scaled[i].scale, R(0)) =>
            ContentPoint(obs.scaled[i].center, obs.scaled[i].offset1, obs.scaled[i].zoomFactor1)
                = ContentPoint(obs.scaled[i].center, obs.scaled[i].offset0, obs.scaled[i].zoomFactor0)

C8_Witness ==
    \E i \in 1..Len(obs.scaled) :
        /\ RGt(obs.scaled[i].scale, R(0))
        /\ RMul(obs.scaled[i].scale, obs.scaled[i].zoomFactor0) # obs.scaled[i].zoomFactor1
        /\ obs.scaled[i].zoomFactor1 # obs.scaled[i].zoomFactor0
        /\ obs.scaled[i].offset1 # obs.scaled[i].offset0
        /\ obs.scaled[i].offset0 # Pt(R(0), R(0))
(* the interaction that the finger count and the zoomFactor of the instance p
   ask for *)
Classified(fingers, p) ==
    IF fingers = 2 THEN "zoom"
    ELSE IF fingers = 1 /\ (props.draggableUnZoomed \/ ~isCloseTo(p._zoomFactor, R(1))) THEN "drag"
    ELSE "none"

(* C11: after every touch-end (mouse-up), and after the first touch-move
   (mouse-move) that follows a touch-start and is not part of a double tap,
   the interaction is zoom with two fingers down, drag with one finger down
   and draggableUnZoomed or a zoomFactor not within 0.01 of 1, and none
   otherwise *)
C11_InteractionClassified ==
    [][/\ obs'.last[1] \in {"touchend", "mouseup"}
             => pz'._interaction = Classified(host'.fingersDown, pz')
       /\ (obs'.last[1] \in {"touchmove", "mousemove"} /\ pz._firstMove /\ ~pz._isDoubleTap)
             => pz'._interaction = Classified(host'.fingersDown, pz')]_vars

(* a first touch-move with one finger at a zoomFactor away from 1 started a
   drag although draggableUnZoomed is off *)
C11_Witness ==
    /\ ~props.draggableUnZoomed
    /\ obs.last[1] = "touchmove"
    /\ host.fingersDown = 1
    /\ ~isCloseTo(pz._zoomFactor, R(1))
    /\ pz._interaction = "drag"
    /\ \E i \in 1..Len(obs.calls) : obs.calls[i] = "onDragStart"

Cancelled(calls) ==
    \E i \in 1..Len(calls) : calls[i] = "cancelEvent"

WheelTarget(zoomFactor, w) ==
    clamp(props.minZoom, props.maxZoom,
          RSub(zoomFactor, RDiv(RMul(w.deltaY, IF w.deltaMode = 1 THEN R(15) ELSE R(1)),
                                props.wheelScaleFactor)))

(* C12: with the default shouldInterceptWheel, a wheel event with neither
   ctrl nor meta held is cancelled, sets the zoomFactor at once to
   clamp(minZoom, maxZoom, zoomFactor - deltaY * m / wheelScaleFactor), m
   being 15 for line-mode deltas and 1 otherwise, and schedules a settle; a
   wheel event with ctrl or meta held is not cancelled and leaves zoomFactor
   and offset as they were *)
C12_WheelInterception ==
    [][obs'.last[1] = "wheel" =>
          IF ~(obs'.last[2].ctrlKey \/ obs'.last[2].metaKey)
          THEN /\ Cancelled(obs'.calls)
               /\ pz'._zoomFactor = WheelTarget(pz._zoomFactor, obs'.last[2])
               /\ pz'._wheelTimeOut = 0
          ELSE /\ ~Cancelled(obs'.calls)
               /\ pz'._zoomFactor = pz._zoomFactor
               /\ pz'._offset = pz._offset]_vars

(* the bounds of one axis as the boundary formula states them, elLength
   being content length * initialZoomFactor * zoomFactor *)
BoundaryAxis(contentLength, containerLength, padding, value) ==
    clamp(RSub(min(RSub(RMul(RMul(contentLength, pz._initialZoomFactor), pz._zoomFactor),
                        containerLength), R(0)), padding),
          max(RAdd(RSub(RMul(RMul(contentLength, pz._initialZoomFactor), pz._zoomFactor),
                        containerLength), padding), R(0)),
          value)

(* C13: for every offset, container size, content size, initialZoomFactor,
   zoomFactor and padding >= 0, sanitizeOffset returns on each axis
   clamp(min, max, offset) with max = max(elLength - containerLength +
   padding, 0) and min = min(elLength - containerLength, 0) - padding *)
C13_BoundaryFormula ==
    obs.last[1] = "_sanitizeOffset" =>
        pz._offset = Pt(BoundaryAxis(host.child.offsetWidth, host.rect.width,
                                     props.horizontalPadding, obs.last[2].x),
                        BoundaryAxis(host.child.offsetHeight, host.rect.height,
                                     props.verticalPadding, obs.last[2].y))

(* C14: when the inertia loop has terminated, because the velocity reached
   zero, because the sanitized offset stopped changing or because the
   session ran out, a settle (_sanitize) runs after its last frame: once no
   frame callback and no timer is pending, no ended inertia loop is left
   without a settle after it *)
C14_InertiaEndsWithSettle ==
    Quiescent => ~obs.inertiaEnded

(* the touch-start (mouse-down) before this event, with no touch-start
   between, was classified as a double tap *)
AfterDoubleTap ==
    obs.tapRun >= 2

(* C15: after a touch-start classified as a double tap, a touch-move
   (mouse-move) that comes before the next touch-start changes neither the
   interaction nor the offset nor the zoomFactor, in whatever interaction
   state the double tap arrived *)
C15_DoubleTapSuppression ==
    [][(AfterDoubleTap /\ obs'.last[1] \in {"touchmove", "mousemove"}) =>
          /\ pz'._interaction = pz._interaction
          /\ pz'._offset = pz._offset
          /\ pz'._zoomFactor = pz._zoomFactor]_vars

(* C16: in every sequence of touch and mouse events onDragStart and
   onDragEnd alternate, beginning with onDragStart, and so do onZoomStart and
   onZoomEnd: no end without an unmatched start before it, no second end for
   one start, no second start before the matching end *)
C16_StartEndPairing ==
    obs.unpaired = {}

(* this frame ran the frame function of one animation session, before the
   end of its duration, and that of no other: the session asked for an
   update with isAnimation = true, and the offset and zoomFactor of the
   instance are the ones its frame function computed *)
OneAnimationFrame ==
    /\ obs.last[1] = "frame"
    /\ Len(obs.fates) = 1
    /\ obs.fates[1].what = "ran"

(* C17: the update an animation frame asks for (isAnimation = true) hands
   the state the frame function has just computed to onUpdate within that
   frame, whether or not a coalesced update is pending *)
C17_AnimationUpdateSynchronous ==
    OneAnimationFrame =>
        /\ obs.updates # <<>>
        /\ obs.updates[Len(obs.updates)] = UpdateAction(World)

(* this handler made a drag step: a drag start or a move in the drag state *)
DragStepTaken ==
    obs.dragged # <<>>

(* the inertia frames of this display frame that moved the offset *)
InertiaFramesMoved ==
    {obs.decay[i] : i \in {j \in 1..Len(obs.decay) : obs.decay[j].moved}}

(* C18: with padding >= 0, after every drag step and after every inertia
   frame that moves the offset, the offset is inside the bounds for the
   current zoomFactor and geometry: sanitizeOffset(offset) == offset *)
C18_EagerClamping ==
    /\ DragStepTaken => OffsetContained
    /\ \A f \in InertiaFramesMoved : f.contained

(* a drag step moved the offset beyond the bounds and its clamp brought it
   back *)
C18_Witness ==
    /\ OffsetContained
    /\ \E i \in 1..Len(obs.dragged) :
          /\ obs.dragged[i].last # None
          /\ obs.dragged[i].moved # obs.dragged[i].before
          /\ obs.dragged[i].after # obs.dragged[i].moved
          /\ obs.dragged[i].after = pz._offset

(* C19: with draggableUnZoomed off, a move of a single pointer (one finger,
   or the mouse) in a state whose zoomFactor is within 0.01 of 1 leaves the
   offset as it was, also when the zoomFactor came to 1 while a drag begun
   at a larger zoom is still in progress *)
C19_NoDragUnZoomed ==
    [][(/\ ~props.draggableUnZoomed
        /\ obs'.last[1] \in {"touchmove", "mousemove"}
        /\ Len(obs'.last[2]) = 1
        /\ isCloseTo(pz._zoomFactor, R(1)))
          => pz'._offset = pz._offset]_vars

(* the two start touches of the pinch in progress in the instance p lie on
   one point *)
CoincidentStart(p) ==
    /\ p._interaction = "zoom"
    /\ Len(p._startTouches) = 2
    /\ IsZero(getDistance(p._startTouches[1], p._startTouches[2]))

(* C20: when the two start touches of a pinch have distance 0, every later
   move of the pinch leaves the zoomFactor as it was, and zoomFactor and
   offset stay finite *)
C20_CoincidentStartGuarded ==
    [][(CoincidentStart(pz) /\ obs'.last[1] = "touchmove" /\ Len(obs'.last[2]) = 2) =>
          /\ pz'._zoomFactor = pz._zoomFactor
          /\ IsFinite(pz'._zoomFactor)
          /\ IsFinite(pz'._offset.x)
          /\ IsFinite(pz'._offset.y)]_vars

(* the host reports a content or a container without extent *)
ZeroSized ==
    \/ IsZero(host.child.offsetWidth) /\ IsZero(host.child.styleWidth)
    \/ IsZero(host.rect.width) /\ IsZero(host.rect.height)

FinitePoint(p) ==
    IsFinite(p.x) /\ IsFinite(p.y)

(* C21: after a resize notification that arrives while the content size or
   the container size is zero, the initialZoomFactor and the effective scale
   are 0, and the offset, the initial offset and the x and y of the transform
   are finite numbers *)
C21_ZeroGeometryZeroScale ==
    (obs.last[1] = "resize" /\ ZeroSized) =>
        /\ IsZero(pz._initialZoomFactor)
        /\ IsZero(UpdateAction(World).scale)
        /\ FinitePoint(pz._offset)
        /\ FinitePoint(pz._initialOffset)
        /\ FinitePoint(UpdateAction(World))
(* the fields a gesture in progress continues from *)
GestureContext(p) ==
    <<p._interaction, p._fingers, p._startTouches, p._lastDragPosition, p._lastZoomCenter,
      p._nthZoom, p._firstMove, p._lastScale>>

(* C22: a resize notification that arrives while a drag or a zoom gesture is in
   progress leaves the interaction, the finger count, the gesture context, the
   zoomFactor and the current offset as they were *)
C22_ResizeKeepsGesture ==
    [][(obs'.last[1] = "resize" /\ pz._interaction \in {"drag", "zoom"}) =>
          /\ GestureContext(pz') = GestureContext(pz)
          /\ pz'._zoomFactor = pz._zoomFactor
          /\ pz'._offset = pz._offset]_vars
(* touch, mouse and wheel events *)
PointerInputs ==
    {"touchstart", "touchmove", "touchend", "mousedown", "mousemove", "mouseup", "wheel"}

(* C23: while the enabled prop is false, no touch, mouse or wheel event
   changes the offset, the zoomFactor or the interaction, starts an animation
   or schedules a settle *)
C23_DisabledIgnoresInput ==
    [][(~props.enabled /\ obs'.inputs = obs.inputs + 1 /\ obs'.last[1] \in PointerInputs) =>
          /\ pz'._offset = pz._offset
          /\ pz'._zoomFactor = pz._zoomFactor
          /\ pz'._interaction = pz._interaction
          /\ pz'._inAnimation = pz._inAnimation
          /\ pz'._wheelTimeOut = pz._wheelTimeOut]_vars
(* the zoom-out sessions that finished in this display frame and that no input
   or resize has met since they were requested *)
ZoomOutsFinished ==
    {f \in {obs.fates[i] : i \in 1..Len(obs.fates)} :
        f.fn = "_zoomOutAnimation" /\ f.what = "finished" /\ f.quiet}

(* C24: when the animation that settle starts for a zoomFactor below
   zoomOutFactor completes without further input or resize, the zoomFactor is 1
   and the offset is the initial offset *)
C24_ZoomOutRestoresInitialView ==
    \A f \in ZoomOutsFinished : f.restored

(* such a session, started from an offset other than the initial one, has
   finished: its centre is not the centre of the initial view *)
C24_Witness ==
    \E f \in ZoomOutsFinished :
        /\ f.current
        /\ f.restored
        /\ f.p0 # Pt(RNeg(pz._initialOffset.x), RNeg(pz._initialOffset.y))
====
